---- MODULE Spec2Model ----
(***************************************************************************)
(* searents: rent listings are fetched from a building's page, the raw     *)
(* page is cached as a timestamped snapshot file, the extracted listings   *)
(* are inserted in the "listings" table, and the table is verified against *)
(* (or regenerated from) the snapshot cache.                               *)
(*                                                                         *)
(* Modelled from src/src/searents/{survey,scraper,equity,cli}.py.          *)
(* Time is counted in clock ticks; a timestamp of t ticks is the pair      *)
(* (t \div TicksPerSecond, t % TicksPerSecond) of whole seconds and        *)
(* sub-second ticks (the %f field of a file name, the fraction of an       *)
(* ISO timestamp in the table).                                            *)
(***************************************************************************)
EXTENDS Integers, Sequences, FiniteSets, TLC

VARIABLES
    cache,      \* cache[name]: the files of the scraper's cache directory
    paths,      \* paths[name]: what is found at the scraper's cache path
    db,         \* the rows of the listings table at args.database, in rowid order
    before,     \* history: the rows of the table when the last handler was started
    now,        \* the clock: the next value of datetime.now(utc), in ticks
    pc,         \* the handler that is running ("idle" between processes)
    selected,   \* the scrapers the running / last handler was given
    todo,       \* the scrapers the running handler has still to process
    ret,        \* how the last handler ended
    S,          \* a RentSurvey (or another object) under comparison
    T,          \* a RentSurvey (or another object) under comparison
    cmp,        \* the results of the comparisons made of S and T
    threshold,  \* the threshold argument of episodes(): <<>> when it is None
    eps,        \* what episodes(), unit_episodes() and url_episodes() of S gave
    valid,      \* what S.is_valid() returned: <<>> before the call
    parser,     \* the EquityParser the surveys of a process share
    doc         \* the markup events fed to parser since its last reset

vars == <<cache, paths, db, before, now, pc, selected, todo, ret, S, T, cmp, threshold, eps, valid,
          parser, doc>>
storeVars == <<cache, paths, db, before, now, pc, selected, todo, ret>>
surveyVars == <<S, T, cmp, threshold, eps, valid>>
parserVars == <<parser, doc>>

----------------------------------------------------------------------------
(* Bounds *)

\* The number of snapshots all cache directories hold together.
MaxScrapes == 2

\* The number of markup events of a text that is fed to the parser.
MaxEvents == 5
\* The number of listings of a survey drawn for a comparison.
MaxLen == 2
\* The number of listings of a survey whose episodes are taken.
MaxListings == 3
\* Sub-second clock ticks per second (1000000 microseconds in the program).
TicksPerSecond == 2

----------------------------------------------------------------------------
(* The scrapers main() configures: two of the catalogue *)

Alcyone == [name |-> "Alcyone",
            url |-> "http://www.equityapartments.com/seattle/south-lake-union/alcyone-apartments"]
Cascade == [name |-> "Cascade",
            url |-> "http://www.equityapartments.com/seattle/south-lake-union/cascade-apartments"]
scrapers == <<Alcyone, Cascade>>

Names == {scrapers[i].name : i \in 1..Len(scrapers)}

\* re.search(args.scraper, scraper.name): any sub-list of scrapers, in order.
Selections == {<<Alcyone>>, <<Cascade>>, <<Alcyone, Cascade>>}

\* response.request.url of a response that followed a redirect (here to the
\* URL with a trailing slash): the URL of the last request, not self.url.
Redirected(url) == url \o "/"

----------------------------------------------------------------------------
(* Python helpers *)

\* A sort that leaves the list as it is.
Unsorted(listings) == listings

\* sorted(listings, key=timestamp): a stable sort.
RECURSIVE InsertByKey(_, _)
InsertByKey(sorted, x) ==
    IF sorted = <<>> THEN <<x>>
    ELSE IF sorted[Len(sorted)].timestamp <= x.timestamp
         THEN Append(sorted, x)
         ELSE Append(InsertByKey(SubSeq(sorted, 1, Len(sorted) - 1), x),
                     sorted[Len(sorted)])

RECURSIVE SortedByTimestamp(_)
SortedByTimestamp(listings) ==
    IF listings = <<>> THEN <<>>
    ELSE InsertByKey(SortedByTimestamp(SubSeq(listings, 1, Len(listings) - 1)),
                     listings[Len(listings)])

\* os.listdir(): the files of a directory, each once, in an arbitrary order.
listdir(dir) ==
    {files \in [1..Cardinality(dir) -> dir] :
        \A i, j \in 1..Cardinality(dir) : files[i] = files[j] => i = j}

----------------------------------------------------------------------------
(* survey.py *)

RentListing(price, scraper, timestamp, unit, url) ==
    [price |-> price, scraper |-> scraper, timestamp |-> timestamp,
     unit |-> unit, url |-> url]

\* A RentSurvey object, and an object that is no RentSurvey.
RentSurvey(listings) == [isSurvey |-> TRUE, listings |-> listings]
NotASurvey == [isSurvey |-> FALSE, listings |-> <<>>]

\* An equality that compares the timestamps of the listings only.
SurveyEqTimestamps(self, other) ==
    /\ other.isSurvey
    /\ Len(self.listings) = Len(other.listings)
    /\ \A i \in 1..Len(self.listings) :
          SortedByTimestamp(self.listings)[i].timestamp
              = SortedByTimestamp(other.listings)[i].timestamp

\* An equality that compares the lists of listings as they are.
SurveyEqUnsorted(self, other) ==
    /\ other.isSurvey
    /\ self.listings = other.listings

\* An equality that sorts its own listings only.
SurveyEqSortsSelfOnly(self, other) ==
    /\ other.isSurvey
    /\ SortedByTimestamp(self.listings) = other.listings

\* RentSurvey.__eq__(self, other)
SurveyEq(self, other) ==
    /\ other.isSurvey
    /\ SortedByTimestamp(self.listings) = SortedByTimestamp(other.listings)

\* The expression x == y: x.__eq__(y) when x is a RentSurvey; otherwise x's
\* type does not know RentSurvey and Python reflects to y.__eq__(x); two
\* objects of the other type compare by identity (there is one such object).
PyEq(x, y) ==
    IF x.isSurvey THEN SurveyEq(x, y)
    ELSE IF y.isSurvey THEN SurveyEq(y, x)
    ELSE TRUE

----------------------------------------------------------------------------
(* survey.py: episodes *)

\* datetime.timedelta(weeks=1), in the time unit of the surveys whose
\* episodes are taken.
OneWeek == 2

\* The unit strings of those surveys, in the order Python's sorted() gives.
UnitOrder == <<<<"1", "100">>, <<"1", "200">>>>

\* sorted({listing.unit for listing in url_listings})
SortedUnits(listings) ==
    SelectSeq(UnitOrder, LAMBDA u : \E i \in 1..Len(listings) : listings[i].unit = u)

\* for url in {listing.url for listing in self.listings}: a set is iterated
\* in an arbitrary order, each url once.
UrlOrders(listings) ==
    LET urls == {listings[i].url : i \in 1..Len(listings)}
    IN  {order \in [1..Cardinality(urls) -> urls] :
            \A i, j \in 1..Cardinality(urls) : order[i] = order[j] => i = j}

\* A test that also splits at a gap equal to the threshold.
StartsEpisodeAtThreshold(listing, episode, limit) ==
    listing.timestamp - episode[Len(episode)].timestamp >= limit

\* listing.timestamp - episode[-1].timestamp > threshold
StartsEpisode(listing, episode, limit) ==
    listing.timestamp - episode[Len(episode)].timestamp > limit

\* An inner loop without the last `yield episode`.
RECURSIVE SplitEpisodesNoLastYield(_, _, _)
SplitEpisodesNoLastYield(episode, unit_listings, limit) ==
    IF unit_listings = <<>> THEN <<>>
    ELSE LET listing == Head(unit_listings)
         IN  IF StartsEpisode(listing, episode, limit)
             THEN <<episode>>
                      \o SplitEpisodesNoLastYield(<<listing>>, Tail(unit_listings), limit)
             ELSE SplitEpisodesNoLastYield(Append(episode, listing),
                                           Tail(unit_listings), limit)

\* The inner loop of episodes(): the episodes yielded for the sorted
\* listings of one url and unit, `episode` being the one under construction.
RECURSIVE SplitEpisodes(_, _, _)
SplitEpisodes(episode, unit_listings, limit) ==
    IF unit_listings = <<>> THEN <<episode>>
    ELSE LET listing == Head(unit_listings)
         IN  IF StartsEpisode(listing, episode, limit)
             THEN <<episode>> \o SplitEpisodes(<<listing>>, Tail(unit_listings), limit)
             ELSE SplitEpisodes(Append(episode, listing), Tail(unit_listings), limit)

\* The loop over the units of one url.
RECURSIVE UnitLoop(_, _, _)
UnitLoop(url_listings, units, limit) ==
    IF units = <<>> THEN <<>>
    ELSE LET unit_listings ==
                 SortedByTimestamp(SelectSeq(url_listings,
                                             LAMBDA l : l.unit = Head(units)))
         IN  SplitEpisodes(<<Head(unit_listings)>>, Tail(unit_listings), limit)
                 \o UnitLoop(url_listings, Tail(units), limit)

\* The loop over the urls, iterated in order `urls`.
RECURSIVE UrlLoop(_, _, _)
UrlLoop(listings, urls, limit) ==
    IF urls = <<>> THEN <<>>
    ELSE LET url_listings == SelectSeq(listings, LAMBDA l : l.url = Head(urls))
         IN  UnitLoop(url_listings, SortedUnits(url_listings), limit)
                 \o UrlLoop(listings, Tail(urls), limit)

\* The threshold episodes() works with: one week when the argument is None.
Threshold(arg) == IF arg = <<>> THEN OneWeek ELSE arg[1]

\* RentSurvey.episodes(threshold): the episodes the generator yields, the
\* set of urls being iterated in order `urls`.
episodes(self, arg, urls) == UrlLoop(self.listings, urls, Threshold(arg))

\* What a generator gave when it was run to its end: the values it yielded,
\* or that it raised RuntimeError.
Yielded(values) == [ok |-> TRUE, values |-> values]
RuntimeError == [ok |-> FALSE, values |-> <<>>]

Last(seq) == seq[Len(seq)]

\* The loop of unit_episodes() over the episodes after the first.
RECURSIVE UnitGroups(_, _, _)
UnitGroups(unit, group, rest) ==
    IF rest = <<>> THEN <<<<unit, group>>>>
    ELSE LET episode == Head(rest)
         IN  IF Last(episode).unit # unit
             THEN <<<<unit, group>>>>
                      \o UnitGroups(Last(episode).unit, <<episode>>, Tail(rest))
             ELSE UnitGroups(unit, Append(group, episode), Tail(rest))

\* RentSurvey.unit_episodes(): next(iterator) raising StopIteration is
\* turned into RuntimeError("This should never happen.").
unit_episodes(all) ==
    IF all = <<>> THEN RuntimeError
    ELSE Yielded(UnitGroups(Last(Head(all)).unit, <<Head(all)>>, Tail(all)))

\* The loop of url_episodes() over the (unit, episodes) tuples after the first.
RECURSIVE UrlGroups(_, _, _)
UrlGroups(url, group, rest) ==
    IF rest = <<>> THEN <<<<url, group>>>>
    ELSE LET episodes_ == Head(rest)[2]
         IN  IF Last(Last(episodes_)).url # url
             THEN <<<<url, group>>>>
                      \o UrlGroups(Last(Last(episodes_)).url, <<Head(rest)>>, Tail(rest))
             ELSE UrlGroups(url, Append(group, Head(rest)), Tail(rest))

\* RentSurvey.url_episodes(), given what unit_episodes() gives: an error
\* raised by the generator it iterates propagates.
url_episodes(units) ==
    IF ~units.ok \/ units.values = <<>> THEN RuntimeError
    ELSE LET first == Head(units.values)
         IN  Yielded(UrlGroups(Last(Last(first[2])).url, <<first>>,
                               Tail(units.values)))

----------------------------------------------------------------------------
(* survey.py: is_valid (src/searents/survey.py, where a listing is a dict)  *)

\* A Python value with its type; a price's value is the number it is or
\* spells, the other values are text.
Value(type, value) == [type |-> type, value |-> value]

\* RentSurvey.listing_types
listing_types ==
    [price |-> "float", scraper |-> "str", timestamp |-> "datetime",
     unit |-> "str", url |-> "str"]

\* isinstance(listing[key], type_): no type involved is a subclass of another.
isinstance(value, type) == value.type = type

\* RentSurvey.is_valid()
is_valid(self) ==
    \A i \in 1..Len(self.listings) :
        \A key \in DOMAIN listing_types :
            isinstance(self.listings[i][key], listing_types[key])

----------------------------------------------------------------------------
(* scraper.py *)

Scrape(text, timestamp, url, path) ==
    [text |-> text, timestamp |-> timestamp, url |-> url, path |-> path]

\* A value of Optional[str] that is None.
None == "None"

\* mimetypes.guess_extension(content_type, strict=False) or "": the file
\* name component the extension adds (none for an unknown content type).
guess_extension(ctype) == IF ctype = "text/html" THEN <<"html">> ELSE <<>>

\* timestamp.strftime(datetime_format) + extension: the file name, as the
\* sequence of its dot-separated components "%Y%m%dT%H%M%SZ", "%f", extension.
FileName(timestamp, ctype) ==
    <<timestamp \div TicksPerSecond, timestamp % TicksPerSecond>>
        \o guess_extension(ctype)

\* os.path.splitext(filename)[0]: the name without its last component, when
\* it has more than one.
splitext0(filename) ==
    IF Len(filename) > 1 THEN SubSeq(filename, 1, Len(filename) - 1)
    ELSE filename

\* timestamp_str, microsecond_str = splitext(filename)[0].split("."), then
\* dateutil's parse of the first and int() of the second. The unpacking
\* raises ValueError unless the split yields exactly two strings.
ParsedName(filename) ==
    LET parts == splitext0(filename)
    IN  IF Len(parts) # 2 THEN [ok |-> FALSE, timestamp |-> 0]
        ELSE [ok |-> TRUE, timestamp |-> parts[1] * TicksPerSecond + parts[2]]

\* What can be found at a cache path: a directory, a file that is no
\* directory, nothing ("missing"), and nothing where nothing can be made
\* ("blocked": os.makedirs raises, a parent of the path being a file).
PathKinds == {"dir", "file", "missing", "blocked"}

\* A setter that does not look at what is at the path.
cache_path_unchecked(kind) == [ok |-> TRUE, kind |-> kind]

\* The setter of BaseScraper.cache_path for a path that is not None: what
\* is at the path afterwards, and ok: FALSE when the setter raised.
cache_path(kind) ==
    IF kind = "blocked" THEN [ok |-> FALSE, kind |-> kind]
    ELSE LET made == IF kind = "missing" THEN "dir" ELSE kind
         IN  [ok |-> made = "dir", kind |-> made]

\* A file of a cache directory.
File(name, text) == [name |-> name, text |-> text]

\* A write that empties the directory first.
WriteFileTruncating(dir, name, text) == {File(name, text)}

\* open(path, "w").write(text) in a directory: a file of that name is replaced.
WriteFile(dir, name, text) ==
    {f \in dir : f.name # name} \union {File(name, text)}

----------------------------------------------------------------------------
(* equity.py: the pages and EquityParser *)

\* The markup events HTMLParser.feed() finds in a text: a comment (its
\* stripped data split at ", ", each part split at " "), a start tag and
\* a start-end tag (the tag's text, and the attributes), a run of
\* character data, an end tag (the tag's name in lower case).
Event(kind, text, parts) == [kind |-> kind, text |-> text, parts |-> parts]
Comment(ledger, building, unit) ==
    Event("comment", "",
          <<<<"ledgerId", ledger>>, <<"building", building>>, <<"unit", unit>>>>)
BadComment == Event("comment", "", <<<<"ledgerId", "7">>>>)
StartTag(text) == Event("starttag", text, <<>>)
StartEndTag(text, attrs) == Event("startendtag", text, attrs)
Data(text) == Event("data", text, <<>>)
EndTag(tag) == Event("endtag", tag, <<>>)

\* The start tag handle_data() looks for.
SpanPricing == "<span class=\"pricing\">"

\* The markup of one listing of a page.
ListingMarkup(ledger, building, unit, price) ==
    <<Comment(ledger, building, unit), StartTag(SpanPricing), Data(price),
      EndTag("span"), EndTag("li")>>

\* The pages a building's site answers with: the text of a page is named,
\* and Markup gives the events HTMLParser.feed() finds in it, in order.
PageOne == "<li> 1 100 $1,500 </li>"
PageTwo == "<li> 1 100 $1,550 </li> <li> 1 200 $1,500 </li>"
PageEmpty == "<ul> </ul>"
PageNoPrice == "<li> 1 100 </li>"
PageNegative == "<li> 1 100 $-1 </li>"

Markup(text) ==
    CASE text = PageOne -> ListingMarkup("7", "1", "100", "$1,500")
      [] text = PageTwo -> ListingMarkup("7", "1", "100", "$1,550")
                           \o ListingMarkup("8", "1", "200", "$1,500")
      [] text = PageEmpty -> <<StartTag("<ul>"), Data(" "), EndTag("ul")>>
      [] text = PageNoPrice -> <<Comment("7", "1", "100"), EndTag("li")>>
      [] text = PageNegative -> ListingMarkup("7", "1", "100", "$-1")
      [] OTHER -> <<>>

\* data.strip()
strip(data) == IF data = " " THEN "" ELSE data

\* A unit dict of the parser as handle_comment makes it; floorplan,
\* description and price are <<>> while the key is absent.
UnitDict(ledger, building, unit) ==
    [ledger |-> ledger, building |-> building, unit |-> unit,
     floorplan |-> <<>>, description |-> <<>>, price |-> <<>>]

\* EquityParser(): units, _unit (<<>> for None), the text of the last
\* start tag that HTMLParser keeps for get_starttag_text(), and error:
\* whether a handler raised out of feed().
EquityParser ==
    [units |-> <<>>, unit |-> <<>>, starttag |-> None, error |-> FALSE]

\* EquityParser.reset(): HTMLParser.reset() leaves the text of the last
\* start tag as it is.
reset(p) == [p EXCEPT !.units = <<>>, !.unit = <<>>, !.error = FALSE]

\* The parser of a new process after reset().
ParserReset == reset(EquityParser)

\* EquityParser.handle_comment
handle_comment(p, ev) ==
    IF ev.parts # <<>> /\ ev.parts[1][1] = "ledgerId"
        THEN IF Len(ev.parts) # 3
             THEN [p EXCEPT !.error = TRUE]
             ELSE [p EXCEPT !.unit = <<UnitDict(ev.parts[1][2], ev.parts[2][2],
                                                ev.parts[3][2])>>]
    ELSE p

\* The loop of handle_startendtag over the attributes of the tag.
RECURSIVE SetAttrs(_, _)
SetAttrs(unit, attrs) ==
    IF attrs = <<>> THEN unit
    ELSE LET attr == Head(attrs)
             one == IF attr[1] = "src" THEN [unit EXCEPT !.floorplan = <<attr[2]>>]
                    ELSE IF attr[1] = "alt"
                        THEN [unit EXCEPT !.description = <<attr[2]>>]
                    ELSE unit
         IN  SetAttrs(one, Tail(attrs))

\* EquityParser.handle_startendtag
handle_startendtag(p, ev) ==
    IF p.unit # <<>> THEN [p EXCEPT !.unit = <<SetAttrs(p.unit[1], ev.parts)>>]
    ELSE p

\* An end tag handler that takes every end tag for the end of a listing.
handle_endtag_any(p, ev) ==
    IF p.unit # <<>>
        THEN [p EXCEPT !.units = Append(p.units, p.unit[1]), !.unit = <<>>]
    ELSE p

\* EquityParser.handle_endtag
handle_endtag(p, ev) ==
    IF ev.text = "li" /\ p.unit # <<>>
        THEN [p EXCEPT !.units = Append(p.units, p.unit[1]), !.unit = <<>>]
    ELSE p

\* EquityParser.handle_data
handle_data(p, ev) ==
    LET data == strip(ev.text)
    IN  IF data # "" /\ p.unit # <<>> /\ p.starttag = SpanPricing
            THEN [p EXCEPT !.unit[1].price = <<data>>]
        ELSE p

\* One step of HTMLParser.goahead() on parser state p: the text of a start
\* tag is kept, and the handler of the event is called.
Handle(p, ev) ==
    CASE ev.kind = "comment" -> handle_comment(p, ev)
      [] ev.kind = "starttag" -> [p EXCEPT !.starttag = ev.text]
      [] ev.kind = "startendtag" ->
            handle_startendtag([p EXCEPT !.starttag = ev.text], ev)
      [] ev.kind = "data" -> handle_data(p, ev)
      [] ev.kind = "endtag" -> handle_endtag(p, ev)
      [] OTHER -> p

\* parser.feed(): the handler calls, in document order, until one raises.
RECURSIVE HandleAll(_, _)
HandleAll(p, events) ==
    IF events = <<>> \/ p.error THEN p
    ELSE HandleAll(Handle(p, Head(events)), Tail(events))

Feed(p, text) == HandleAll(p, Markup(text))

\* The parser of a new process after reset() and feed(text), for each of
\* the pages.
Pages == {PageOne, PageTwo, PageEmpty, PageNoPrice, PageNegative}
FedPages == [text \in Pages |-> Feed(ParserReset, text)]

----------------------------------------------------------------------------
(* equity.py: EquityScraper *)

\* The result of a call that may raise: ok is FALSE when it raised.
Returned(listings) == [ok |-> TRUE, listings |-> listings]
Raised == [ok |-> FALSE, listings |-> <<>>]

\* float(price.replace("$", "").replace(",", "")) of the price texts of
\* the pages: ok is FALSE when it raises ValueError.
PriceFloat(price) ==
    CASE price = "$1,500" -> [ok |-> TRUE, value |-> 1500]
      [] price = "$1,550" -> [ok |-> TRUE, value |-> 1550]
      [] price = "$-1" -> [ok |-> TRUE, value |-> -1]
      [] OTHER -> [ok |-> FALSE, value |-> 0]

\* unit["price"] raises KeyError when a unit has no price.
Priced(unit) == unit.price # <<>> /\ PriceFloat(unit.price[1]).ok

\* The rest of EquityScraper.survey(scrape) once the parser p was
\* reset and fed: the listings of the parser's units.
Surveyed(self, scrape, p) ==
    IF p.error \/ \E i \in 1..Len(p.units) : ~Priced(p.units[i]) THEN Raised
    ELSE Returned([i \in 1..Len(p.units) |->
            RentListing(PriceFloat(p.units[i].price[1]).value,
                        self.name,
                        scrape.timestamp,
                        <<p.units[i].building, p.units[i].unit>>,
                        IF scrape.url # None THEN scrape.url ELSE self.url)])

\* EquityScraper.survey(scrape) with the default parser of the process.
\* In the pages above every run of character data inside a listing
\* follows the pricing span, so that the start tag a previous text left in
\* the parser is never read.
survey(self, scrape) == Surveyed(self, scrape, FedPages[scrape.text])

\* BaseScraper.cached_scrapes for one file of the directory.
cached_scrape(file) ==
    Scrape(file.text, ParsedName(file.name).timestamp, None, file.name)

\* A cache_survey that takes a snapshot without listings for an error.
RECURSIVE cache_survey_in_EmptyRaises(_, _)
cache_survey_in_EmptyRaises(self, files) ==
    IF files = <<>> THEN Returned(<<>>)
    ELSE LET file == Head(files)
             one == survey(self, cached_scrape(file))
             rest == cache_survey_in_EmptyRaises(self, Tail(files))
         IN  IF ~ParsedName(file.name).ok THEN Raised
             ELSE IF ~one.ok \/ one.listings = <<>> THEN Raised
             ELSE IF ~rest.ok THEN Raised
             ELSE Returned(one.listings \o rest.listings)

\* EquityScraper.cache_survey, the directory being listed in order `files`.
RECURSIVE cache_survey_in(_, _)
cache_survey_in(self, files) ==
    IF files = <<>> THEN Returned(<<>>)
    ELSE LET file == Head(files)
             one == survey(self, cached_scrape(file))
             rest == cache_survey_in(self, Tail(files))
         IN  IF ~ParsedName(file.name).ok THEN Raised
             ELSE IF ~one.ok THEN Raised
             ELSE IF ~rest.ok THEN Raised
             ELSE Returned(one.listings \o rest.listings)

\* The paths cache_survey logs the warning "... is empty." for, when it
\* returns: those of the scrapes without listings, in the order listed.
cache_warnings(self, files) ==
    SelectSeq(files, LAMBDA file : survey(self, cached_scrape(file)).listings = <<>>)

\* The surveys cache_survey can return for a directory (or that it raises).
cache_survey(self, dir) == {cache_survey_in(self, files) : files \in listdir(dir)}

----------------------------------------------------------------------------
(* cli.py: the listings table *)

\* sqlite3's adapter writes a datetime as ISO text (seconds and fraction);
\* the TIMESTAMP converter, dateutil.parser.parse, reads it back.
AdaptDatetimeSeconds(timestamp) == <<timestamp \div TicksPerSecond, 0>>

AdaptDatetime(timestamp) ==
    <<timestamp \div TicksPerSecond, timestamp % TicksPerSecond>>
ConvertTimestamp(text) == text[1] * TicksPerSecond + text[2]

\* The parameter tuples of INSERT INTO listings VALUES (?, ?, ?, ?, ?).
InsertRows(scraper, listings) ==
    [i \in 1..Len(listings) |->
        [timestamp |-> AdaptDatetime(listings[i].timestamp),
         url |-> listings[i].url,
         scraper |-> scraper.name,
         unit |-> listings[i].unit,
         price |-> listings[i].price]]

\* SELECT * FROM listings WHERE scraper=?
RECURSIVE SelectByScraper(_, _)
SelectByScraper(table, name) ==
    IF table = <<>> THEN <<>>
    ELSE IF Head(table).scraper = name
         THEN <<Head(table)>> \o SelectByScraper(Tail(table), name)
         ELSE SelectByScraper(Tail(table), name)

\* RentSurvey(listings=[RentListing(**row) for row in cursor.fetchall()])
TableSurvey(table, name) ==
    LET rows == SelectByScraper(table, name)
    IN  RentSurvey([i \in 1..Len(rows) |->
            RentListing(rows[i].price, rows[i].scraper,
                        ConvertTimestamp(rows[i].timestamp),
                        rows[i].unit, rows[i].url)])

----------------------------------------------------------------------------
(* cli.py: verify_handler *)

\* One iteration of verify_handler's loop: the comparisons it can make for
\* a scraper, one for each order the cache directory can be listed in.
Compared(self, table, dir) ==
    LET tableSurvey == TableSurvey(table, self.name)
    IN  {IF ~cs.ok THEN "raise"
         ELSE IF SurveyEq(tableSurvey, RentSurvey(cs.listings))
              THEN "equal" ELSE "differ"
         : cs \in cache_survey(self, dir)}

VerifyOne(self) == Compared(self, db, cache[self.name])

\* verify_handler(args, scrapers, connection): the ways it can end.
VerifyFirstOnly(sel) ==
    IF sel = <<>> THEN {"0"}
    ELSE LET one == VerifyOne(Head(sel))
         IN  (IF "raise" \in one THEN {"raise"} ELSE {})
             \union (IF "differ" \in one THEN {"1"} ELSE {})
             \union (IF "equal" \in one THEN {"0"} ELSE {})

RECURSIVE verify(_)
verify(sel) ==
    IF sel = <<>> THEN {"0"}
    ELSE LET one == VerifyOne(Head(sel))
         IN  (IF "raise" \in one THEN {"raise"} ELSE {})
             \union (IF "differ" \in one THEN {"1"} ELSE {})
             \union (IF "equal" \in one THEN verify(Tail(sel)) ELSE {})

----------------------------------------------------------------------------
(* The state after construction *)

\* What requests.get(self.url) brings for scraper self, and the ticks the
\* clock advances between the two datetime.now() calls of scrape().
Response(text, ctype, url, lag) ==
    [text |-> text, ctype |-> ctype, url |-> url, lag |-> lag]

\* A page of two listings (handled within a tick, or not), an empty page, a
\* page with an unpriced unit, a page of unknown content type, a page
\* reached through a redirect.
Responses(self) ==
    {Response(PageTwo, "text/html", self.url, 0),
     Response(PageTwo, "text/html", self.url, 1),
     Response(PageEmpty, "text/html", self.url, 1),
     Response(PageNoPrice, "text/html", self.url, 1),
     Response(PageOne, "application/x-unknown", self.url, 0),
     Response(PageOne, "text/html", Redirected(self.url), 0)}

NoComparison == [done |-> FALSE, st |-> FALSE, ts |-> FALSE, ss |-> FALSE]

NoEpisodes == [done |-> FALSE]

StoreInit ==
    /\ cache = [n \in Names |-> {}]
    /\ paths = [n \in Names |-> "dir"]
    /\ db = <<>>
    /\ before = <<>>
    /\ now = 0
    /\ pc = "main"
    /\ selected = <<>>
    /\ todo = <<>>
    /\ ret = "None"

ParserInit ==
    /\ parser = EquityParser
    /\ doc = <<>>

Init ==
    /\ StoreInit
    /\ ParserInit
    /\ S = RentSurvey(<<>>)
    /\ T = RentSurvey(<<>>)
    /\ cmp = NoComparison
    /\ threshold = <<>>
    /\ eps = NoEpisodes
    /\ valid = <<>>

Running == ret = "running"

Snapshots == Cardinality(UNION {cache[n] : n \in Names})

----------------------------------------------------------------------------
(* scraper.py: BaseScraper.scrape *)

\* The cache directory after scrape() has written the response, named by
\* the first datetime.now().
scrapeWrites(self, response, timestamp) ==
    WriteFile(cache[self.name], FileName(timestamp, response.ctype), response.text)

\* The Scrape that scrape() returns: stamped by a second datetime.now().
scrapeReturns(self, response, timestamp) ==
    Scrape(response.text, timestamp + response.lag, response.url,
           FileName(timestamp, response.ctype))

----------------------------------------------------------------------------
(* cli.py: fetch_handler *)

\* main() hands the selected scrapers to fetch_handler.
FetchStart(sel) ==
    /\ ~Running
    /\ before' = db
    /\ Snapshots + Len(sel) <= MaxScrapes
    /\ pc' = "fetch"
    /\ selected' = sel
    /\ todo' = sel
    /\ ret' = "running"
    /\ UNCHANGED <<cache, db, now, surveyVars, parserVars, paths>>

\* A fetch that replaces the rows of the table by the new ones.
FetchReplacesRows(self, response) ==
    /\ Running /\ pc = "fetch" /\ todo # <<>> /\ self = Head(todo)
    /\ LET scrape == scrapeReturns(self, response, now)
           sv == survey(self, scrape)
       IN  /\ cache' = [cache EXCEPT ![self.name] = scrapeWrites(self, response, now)]
           /\ now' = now + response.lag + 1
           /\ IF sv.ok
              THEN /\ db' = InsertRows(self, sv.listings)
                   /\ todo' = Tail(todo)
                   /\ ret' = IF Tail(todo) = <<>> THEN "None" ELSE "running"
              ELSE /\ db' = db
                   /\ todo' = todo
                   /\ ret' = "raise"
    /\ UNCHANGED <<before, pc, selected, surveyVars, parserVars, paths>>

\* One iteration of the loop, the GET succeeding: scrape_survey(), then the
\* INSERT and the commit. An exception raised by survey() ends the handler.
Fetch(self, response) ==
    /\ Running /\ pc = "fetch" /\ todo # <<>> /\ self = Head(todo)
    /\ LET scrape == scrapeReturns(self, response, now)
           sv == survey(self, scrape)
       IN  /\ cache' = [cache EXCEPT ![self.name] = scrapeWrites(self, response, now)]
           /\ now' = now + response.lag + 1
           /\ IF sv.ok
              THEN /\ db' = db \o InsertRows(self, sv.listings)
                   /\ todo' = Tail(todo)
                   /\ ret' = IF Tail(todo) = <<>> THEN "None" ELSE "running"
              ELSE /\ db' = db
                   /\ todo' = todo
                   /\ ret' = "raise"
    /\ UNCHANGED <<before, pc, selected, surveyVars, parserVars, paths>>

\* One iteration of the loop, the GET failing (ConnectionError or an HTTP
\* error status): scrape() raises ScrapeError, which nothing catches.
FetchScrapeError ==
    /\ Running /\ pc = "fetch" /\ todo # <<>>
    /\ ret' = "raise"
    /\ UNCHANGED <<cache, db, before, now, pc, selected, todo, surveyVars, parserVars, paths>>

----------------------------------------------------------------------------
(* cli.py: regenerate_handler *)

\* A regenerate that rebuilds every configured scraper, whatever was selected.
RegenerateStartAll(sel) ==
    /\ ~Running
    /\ before' = db
    /\ pc' = "regenerate"
    /\ selected' = sel
    /\ todo' = scrapers
    /\ ret' = "running"
    /\ db' = <<>>
    /\ UNCHANGED <<cache, now, surveyVars, parserVars, paths>>

\* connection.close(), os.rename(database, database + "." + time),
\* database_connection(): the table at args.database is created anew, empty
\* (no handler reads the renamed file again).
RegenerateStart(sel) ==
    /\ ~Running
    /\ before' = db
    /\ pc' = "regenerate"
    /\ selected' = sel
    /\ todo' = sel
    /\ ret' = "running"
    /\ db' = <<>>
    /\ UNCHANGED <<cache, now, surveyVars, parserVars, paths>>

\* One iteration of the loop: cache_survey, INSERT, commit; sys.exit()
\* after the last one. An exception raised by cache_survey ends the handler.
Regenerate ==
    /\ Running /\ pc = "regenerate" /\ todo # <<>>
    /\ \E cs \in cache_survey(Head(todo), cache[Head(todo).name]) :
          IF cs.ok
          THEN /\ db' = db \o InsertRows(Head(todo), cs.listings)
               /\ todo' = Tail(todo)
               /\ ret' = IF Tail(todo) = <<>> THEN "exit" ELSE "running"
          ELSE /\ db' = db
               /\ todo' = todo
               /\ ret' = "raise"
    /\ UNCHANGED <<cache, before, now, pc, selected, surveyVars, parserVars, paths>>

\* The process is interrupted (KeyboardInterrupt, kill) between two
\* iterations of a handler's loop.
Interrupt ==
    /\ Running
    /\ ret' = "interrupt"
    /\ UNCHANGED <<cache, db, before, now, pc, selected, todo, surveyVars, parserVars, paths>>

----------------------------------------------------------------------------
(* cli.py: verify_handler, show_handler *)

\* A verify that repairs the table of the first scraper it finds to differ.
VerifyHandlerRepairs(sel) ==
    /\ ~Running
    /\ before' = db
    /\ pc' = "verify"
    /\ selected' = sel
    /\ todo' = <<>>
    /\ ret' \in verify(sel)
    /\ db' = IF ret' = "1" THEN <<>> ELSE db
    /\ UNCHANGED <<cache, now, surveyVars, parserVars, paths>>

VerifyHandler(sel) ==
    /\ ~Running
    /\ before' = db
    /\ pc' = "verify"
    /\ selected' = sel
    /\ todo' = <<>>
    /\ ret' \in verify(sel)
    /\ UNCHANGED <<cache, db, now, surveyVars, parserVars, paths>>

\* show_handler reads the table and prints (or plots) the listings; what
\* it prints is no state, and it is run here for all scrapers only.
ShowHandler(sel) ==
    /\ ~Running
    /\ before' = db
    /\ pc' = "show"
    /\ selected' = sel
    /\ todo' = <<>>
    /\ ret' = "None"
    /\ UNCHANGED <<cache, db, now, surveyVars, parserVars, paths>>

Next ==
    \/ \E sel \in Selections : FetchStart(sel)
    \/ \E i \in 1..Len(scrapers) :
          \E response \in Responses(scrapers[i]) : Fetch(scrapers[i], response)
    \/ FetchScrapeError
    \/ \E sel \in Selections : RegenerateStart(sel)
    \/ Regenerate
    \/ Interrupt
    \/ \E sel \in Selections : VerifyHandler(sel)
    \/ ShowHandler(scrapers)

Spec == Init /\ [][Next]_vars

----------------------------------------------------------------------------
(* Fetches only, each one succeeding: the GET brings an HTML page, the     *)
(* extraction raises nothing, the rows are inserted                        *)

FetchSucceeds(self, response) ==
    /\ response.ctype = "text/html"
    /\ survey(self, scrapeReturns(self, response, now)).ok
    /\ Fetch(self, response)

FetchNext ==
    \/ \E sel \in Selections : FetchStart(sel)
    \/ \E i \in 1..Len(scrapers) :
          \E response \in Responses(scrapers[i]) :
             FetchSucceeds(scrapers[i], response)

FetchSpec == Init /\ [][FetchNext]_vars

----------------------------------------------------------------------------
(* The handlers that insert rows, fetch and regenerate, the pages fetched  *)
(* holding a unit with a price, with a negative price, with no price       *)

PageResponses(self) ==
    {Response(text, "text/html", self.url, 0) :
        text \in {PageOne, PageNegative, PageNoPrice}}

InsertNext ==
    \/ \E sel \in Selections : FetchStart(sel)
    \/ \E i \in 1..Len(scrapers) :
          \E response \in PageResponses(scrapers[i]) : Fetch(scrapers[i], response)
    \/ \E sel \in Selections : RegenerateStart(sel)
    \/ Regenerate

InsertSpec == Init /\ [][InsertNext]_vars

----------------------------------------------------------------------------
(* The handlers that fill and read the caches: fetch, with every response, *)
(* and regenerate                                                          *)

CacheNext ==
    \/ \E sel \in Selections : FetchStart(sel)
    \/ \E i \in 1..Len(scrapers) :
          \E response \in Responses(scrapers[i]) : Fetch(scrapers[i], response)
    \/ \E sel \in Selections : RegenerateStart(sel)
    \/ Regenerate

CacheSpec == Init /\ [][CacheNext]_vars

----------------------------------------------------------------------------
(* The start of a process: main() constructs the scrapers, whatever is at  *)
(* their cache paths, before a handler is called; here the handler that    *)
(* follows is fetch_handler, each fetch succeeding                         *)

\* The scrapers of main() are constructed in order until a constructor
\* raises.
RECURSIVE construct(_, _)
construct(disk, list) ==
    IF list = <<>> THEN [ok |-> TRUE, paths |-> disk]
    ELSE LET one == cache_path(disk[Head(list).name])
             next == [disk EXCEPT ![Head(list).name] = one.kind]
         IN  IF one.ok THEN construct(next, Tail(list))
             ELSE [ok |-> FALSE, paths |-> next]

StartInit ==
    /\ cache = [n \in Names |-> {}]
    /\ paths \in [Names -> PathKinds]
    /\ db = <<>>
    /\ before = <<>>
    /\ now = 0
    /\ pc = "start"
    /\ selected = <<>>
    /\ todo = <<>>
    /\ ret = "None"
    /\ ParserInit
    /\ S = RentSurvey(<<>>)
    /\ T = RentSurvey(<<>>)
    /\ cmp = NoComparison
    /\ threshold = <<>>
    /\ eps = NoEpisodes
    /\ valid = <<>>

\* main() up to the call of the handler: an exception of a constructor
\* ends the process, and the next process starts the same way.
Main ==
    /\ pc = "start"
    /\ LET made == construct(paths, scrapers)
       IN  /\ paths' = made.paths
           /\ pc' = IF made.ok THEN "main" ELSE "start"
           /\ ret' = IF made.ok THEN "None" ELSE "raise"
    /\ UNCHANGED <<cache, db, before, now, selected, todo, surveyVars, parserVars>>

\* The handler is called once main() has constructed the scrapers.
Constructed == pc # "start"

StartedFetchStart(sel) == Constructed /\ FetchStart(sel)

StartedFetch(self, response) == Constructed /\ FetchSucceeds(self, response)

StartNext ==
    \/ Main
    \/ \E sel \in Selections : StartedFetchStart(sel)
    \/ \E i \in 1..Len(scrapers) :
          \E response \in Responses(scrapers[i]) :
             StartedFetch(scrapers[i], response)

StartSpec == StartInit /\ [][StartNext]_vars

----------------------------------------------------------------------------
(* The parser that the surveys of one process share: it is reset before a  *)
(* text is fed, and the text is any sequence of at most MaxEvents markup   *)
(* events, handled one after the other                                     *)

Events ==
    {Comment("7", "1", "100"), Comment("8", "1", "200"), BadComment,
     StartTag(SpanPricing),
     StartEndTag("<img src=\"a.png\" alt=\"1 Bed\"/>",
                 <<<<"src", "a.png">>, <<"alt", "1 Bed">>>>),
     Data("$1,500"), EndTag("span"), EndTag("li")}

\* parser.reset() at the start of survey().
SurveyReset ==
    /\ parser' = reset(parser)
    /\ doc' = <<>>
    /\ UNCHANGED <<storeVars, surveyVars>>

\* parser.feed(): the next markup event of the text is handled.
FeedEvent(ev) ==
    /\ ~parser.error
    /\ Len(doc) < MaxEvents
    /\ parser' = Handle(parser, ev)
    /\ doc' = Append(doc, ev)
    /\ UNCHANGED <<storeVars, surveyVars>>

ParserNext ==
    \/ SurveyReset
    \/ \E ev \in Events : FeedEvent(ev)

ParserSpec == Init /\ [][ParserNext]_vars

----------------------------------------------------------------------------
(* Comparisons of surveys: S and T drawn from the surveys of at most       *)
(* MaxLen listings, and an object that is no survey                        *)

Listings ==
    {RentListing(1500, "Alcyone", t, <<"1", u>>, Alcyone.url) :
        t \in 0..1, u \in {"100", "200"}}

ListingLists == UNION {[1..n -> Listings] : n \in 0..MaxLen}

Objects == {RentSurvey(l) : l \in ListingLists} \union {NotASurvey}

SurveyInit ==
    /\ StoreInit
    /\ ParserInit
    /\ S \in Objects
    /\ T \in Objects
    /\ cmp = NoComparison
    /\ threshold = <<>>
    /\ eps = NoEpisodes
    /\ valid = <<>>

\* S == T, T == S and S == S are evaluated.
Compare ==
    /\ ~cmp.done
    /\ cmp' = [done |-> TRUE, st |-> PyEq(S, T), ts |-> PyEq(T, S), ss |-> PyEq(S, S)]
    /\ UNCHANGED <<storeVars, parserVars, S, T, threshold, eps, valid>>

SurveySpec == SurveyInit /\ [][Compare]_vars

----------------------------------------------------------------------------
(* Episodes of surveys: S drawn from the surveys of at most MaxListings    *)
(* listings of two buildings and two units, the threshold given or not     *)

EpisodeTimes == {0, 1, 3}

EpisodeListings ==
    {RentListing(1500, scrapers[i].name, t, u, scrapers[i].url) :
        i \in 1..Len(scrapers), t \in EpisodeTimes,
        u \in {UnitOrder[k] : k \in 1..Len(UnitOrder)}}

Thresholds == {<<>>, <<1>>}

EpisodeInit ==
    /\ StoreInit
    /\ ParserInit
    /\ S \in {RentSurvey(l) : l \in UNION {[1..n -> EpisodeListings] : n \in 0..MaxListings}}
    /\ T = RentSurvey(<<>>)
    /\ cmp = NoComparison
    /\ threshold \in Thresholds
    /\ eps = NoEpisodes
    /\ valid = <<>>

\* list(S.episodes(threshold)), list(S.unit_episodes(threshold)) and
\* list(S.url_episodes(threshold)) are evaluated in one process: each
\* iterates the same set of urls, built the same way, in the same order.
Episodes ==
    /\ ~eps.done
    /\ \E urls \in UrlOrders(S.listings) :
          LET all == episodes(S, threshold, urls)
              units == unit_episodes(all)
          IN  eps' = [done |-> TRUE,
                      episodes |-> all,
                      unit_episodes |-> units,
                      url_episodes |-> url_episodes(units)]
    /\ UNCHANGED <<storeVars, parserVars, S, T, cmp, threshold, valid>>

EpisodeSpec == EpisodeInit /\ [][Episodes]_vars

----------------------------------------------------------------------------
(* Validity of surveys: S drawn from the surveys of at most MaxLen         *)
(* listings whose fields are of the type expected or not, empty or not,    *)
(* negative or not                                                         *)

TypedListings ==
    [price : {Value("float", 1500), Value("float", -1), Value("int", 1500)},
     scraper : {Value("str", "Alcyone"), Value("str", "")},
     timestamp : {Value("datetime", "20170101T000000Z"), Value("str", "20170101T000000Z")},
     unit : {Value("str", "1 100"), Value("str", ""), Value("NoneType", "None")},
     url : {Value("str", Alcyone.url)}]

ValidInit ==
    /\ StoreInit
    /\ ParserInit
    /\ S \in {RentSurvey(l) : l \in UNION {[1..n -> TypedListings] : n \in 0..MaxLen}}
    /\ T = RentSurvey(<<>>)
    /\ cmp = NoComparison
    /\ threshold = <<>>
    /\ eps = NoEpisodes
    /\ valid = <<>>

\* S.is_valid() is evaluated.
IsValid ==
    /\ valid = <<>>
    /\ valid' = <<is_valid(S)>>
    /\ UNCHANGED <<storeVars, parserVars, S, T, cmp, threshold, eps>>

ValidSpec == ValidInit /\ [][IsValid]_vars

----------------------------------------------------------------------------
(* Notions the properties are stated in *)

\* The table's rows of a scraper compare equal to what its cache regenerates.
Consistent(self) == VerifyOne(self) = {"equal"}
\* They compare different.
Drifted(self) == VerifyOne(self) = {"differ"}
\* The cache cannot be regenerated: cache_survey raises.
Unreadable(self) == "raise" \in VerifyOne(self)

InSeq(x, seq) == \E i \in 1..Len(seq) : seq[i] = x

\* The rows a regeneration of the scraper's cache inserts.
RegeneratedRows(self) ==
    {InsertRows(self, cs.listings) :
        cs \in {c \in cache_survey(self, cache[self.name]) : c.ok}}

\* b holds the elements of a, in some order.
IsPermutation(a, b) ==
    /\ Len(a) = Len(b)
    /\ \E f \in Permutations(1..Len(a)) : \A i \in 1..Len(a) : a[i] = b[f[i]]

\* The concatenation of a sequence of sequences.
RECURSIVE Flatten(_)
Flatten(seqs) == IF seqs = <<>> THEN <<>> ELSE Head(seqs) \o Flatten(Tail(seqs))

\* The (url, unit) pairs a survey of EpisodeSpec can hold listings of.
Pairs ==
    {<<scrapers[i].url, UnitOrder[k]>> : i \in 1..Len(scrapers), k \in 1..Len(UnitOrder)}

\* The listings of S of a pair, and the episodes yielded that hold them.
PairListings(pair) ==
    SelectSeq(S.listings, LAMBDA l : l.url = pair[1] /\ l.unit = pair[2])
PairEpisodes(pair) ==
    SelectSeq(eps.episodes,
              LAMBDA e : e # <<>> /\ e[1].url = pair[1] /\ e[1].unit = pair[2])

NonDecreasing(listings) ==
    \A i \in 1..Len(listings) - 1 : listings[i].timestamp <= listings[i + 1].timestamp

\* The listings the units of a snapshot file give, each tagged with the
\* time of the file's name and with the scraper's name and url.
SnapshotListings(self, file) ==
    LET units == FedPages[file.text].units
    IN  [k \in 1..Len(units) |->
            RentListing(PriceFloat(units[k].price[1]).value, self.name,
                        ParsedName(file.name).timestamp,
                        <<units[k].building, units[k].unit>>, self.url)]

\* The files of a directory in the order of the times of their names.
ByEmbeddedTime(dir) ==
    {files \in listdir(dir) :
        \A k \in 1..Len(files) - 1 :
            ParsedName(files[k].name).timestamp <= ParsedName(files[k + 1].name).timestamp}

\* A sequence as the multiset of its elements.
BagOf(seq) ==
    [x \in {seq[i] : i \in 1..Len(seq)} |-> Cardinality({i \in 1..Len(seq) : seq[i] = x})]

\* The episodes of a sequence of episodes, each as a multiset.
EpisodeBags(all) == {BagOf(all[k]) : k \in 1..Len(all)}

\* The lists that hold the elements of a list, in any order.
Reorderings(seq) ==
    {[i \in 1..Len(seq) |-> seq[f[i]]] : f \in Permutations(1..Len(seq))}

----------------------------------------------------------------------------
(* Properties *)

\* C1: from empty stores, after any sequence of fetches that all succeeded,
\* the table's rows of every scraper compare equal to the survey its cache
\* regenerates (FetchSpec takes successful fetches of HTML pages only).
C1_FetchKeepsConsistent ==
    ~Running => \A i \in 1..Len(scrapers) : Consistent(scrapers[i])

\* C2: a scraper whose rows differ from what its cache regenerates is
\* reported as drifted by a verify of it, and once a regenerate that
\* selected it has run to its end, a verify of it reports consistent.
C2_RebuildMakesConsistent ==
    \A i \in 1..Len(scrapers) :
        LET self == scrapers[i]
            regenerated == RegeneratedRows(self)
        IN
        /\ (/\ ~Running
            /\ regenerated # {}
            /\ SelectByScraper(db, self.name) \notin regenerated)
              => verify(<<self>>) = {"1"}
        /\ (pc = "regenerate" /\ ret = "exit" /\ InSeq(self, selected))
              => verify(<<self>>) = {"0"}

\* C2's case: a regenerate has ended that replaced rows which differed from
\* the regenerated ones, and the scraper is consistent.
C2_Witness ==
    /\ pc = "regenerate" /\ ret = "exit" /\ selected = <<Alcyone>>
    /\ SelectByScraper(before, "Alcyone") # <<>>
    /\ SelectByScraper(before, "Alcyone") \notin RegeneratedRows(Alcyone)
    /\ SelectByScraper(db, "Alcyone") \in RegeneratedRows(Alcyone)
    /\ Consistent(Alcyone)

\* C3: verify_handler returns 1 exactly when the rows of a selected scraper
\* compare different from its regenerated survey and 0 when none does; it
\* raises only when the cache of a selected scraper cannot be regenerated,
\* never to report a difference.
C3_VerifyStatus ==
    (pc = "verify") =>
        LET one == [i \in 1..Len(selected) |-> VerifyOne(selected[i])] IN
        /\ ret \in {"0", "1", "raise"}
        /\ ret = "0" => \A i \in 1..Len(selected) : one[i] = {"equal"}
        /\ ret = "1" => \E i \in 1..Len(selected) : one[i] = {"differ"}
        /\ ret = "raise" => \E i \in 1..Len(selected) : "raise" \in one[i]
        /\ (\A i \in 1..Len(selected) : "raise" \notin one[i])
              => (ret = "1" <=> \E i \in 1..Len(selected) : one[i] = {"differ"})

\* C3's case: verify of two scrapers returned 1 for a difference in the second.
C3_Witness ==
    /\ pc = "verify" /\ ret = "1" /\ selected = <<Alcyone, Cascade>>
    /\ Consistent(Alcyone) /\ Drifted(Cascade)
    /\ SelectByScraper(db, "Alcyone") # <<>>

C5_RebuildKeepsOthers ==
    (pc = "regenerate") =>
        \A i \in 1..Len(scrapers) :
            InSeq(scrapers[i], selected)
            \/ SelectByScraper(db, scrapers[i].name)
                  = SelectByScraper(before, scrapers[i].name)

\* C6: at every point of a regenerate, ended or not, the rows of each
\* selected scraper are the complete old set or the complete regenerated set.
C6_RebuildAtomic ==
    (pc = "regenerate") =>
        \A i \in 1..Len(selected) :
            \/ SelectByScraper(db, selected[i].name)
                  = SelectByScraper(before, selected[i].name)
            \/ SelectByScraper(db, selected[i].name) \in RegeneratedRows(selected[i])

\* C7: a verify changes neither the table nor the cache, whatever it
\* reports; rows leave the table only in a regenerate.
C7_VerifyReadsOnly ==
    [][/\ (pc' = "verify" => db' = db /\ cache' = cache)
       /\ (pc' # "regenerate" =>
              \A i \in 1..Len(db) : i <= Len(db') /\ db'[i] = db[i])]_vars

\* C7's case: a verify has reported a difference and the table is as it was.
C7_Witness ==
    /\ pc = "verify" /\ ret = "1" /\ db = before /\ db # <<>>
    /\ Drifted(Alcyone)

\* C8: no step removes or changes a file of a cache directory; the only
\* step that changes a cache is a fetch whose GET succeeded, which adds
\* exactly one file, to the directory of the scraper being fetched.
C8_CacheAppendOnly ==
    [][/\ \A n \in Names : cache[n] \subseteq cache'[n]
       /\ (cache' # cache => (pc = "fetch" /\ Running /\ now' # now))
       /\ (now' # now =>
              \E file \in cache'[Head(todo).name] \ cache[Head(todo).name] :
                 cache' = [cache EXCEPT ![Head(todo).name] = @ \union {file}])]_vars

\* C8's case: two snapshots were fetched and a regenerate has run since.
C8_Witness ==
    /\ pc = "regenerate" /\ ret = "exit"
    /\ Cardinality(cache["Alcyone"]) = 1 /\ Cardinality(cache["Cascade"]) = 1

\* C9: two surveys built from a list of listings and from a permutation of
\* it compare equal, also when listings share a timestamp.
C9_EqualityIgnoresOrder ==
    (cmp.done /\ S.isSurvey /\ T.isSurvey /\ IsPermutation(S.listings, T.listings))
        => cmp.st

\* C10: S == S is true, and S == T has the value of T == S.
C10_EqReflexiveSymmetric ==
    cmp.done => (cmp.ss /\ cmp.st = cmp.ts)

\* C10's case: two surveys of the same two listings in different orders
\* were compared both ways and found equal.
C10_Witness ==
    /\ cmp.done /\ cmp.st /\ cmp.ts
    /\ S.isSurvey /\ T.isSurvey /\ Len(S.listings) = 2 /\ S # T

\* C11: the episodes of each (url, unit) pair hold the pair's listings in
\* timestamp order, two consecutive listings being in one episode when
\* their timestamps are at most the threshold (one week by default) apart,
\* equal to it included, and in successive episodes when they are more than
\* the threshold apart; a pair with one listing has one episode of it.
C11_EpisodeBoundary ==
    eps.done =>
        \A pair \in Pairs :
            LET ls == PairListings(pair)
                es == PairEpisodes(pair)
                limit == Threshold(threshold)
            IN  /\ IsPermutation(Flatten(es), ls)
                /\ NonDecreasing(Flatten(es))
                /\ Len(ls) = 1 => es = <<ls>>
                /\ \A k \in 1..Len(es) : \A i \in 1..Len(es[k]) - 1 :
                       es[k][i + 1].timestamp - es[k][i].timestamp <= limit
                /\ \A k \in 1..Len(es) - 1 :
                       es[k + 1][1].timestamp - Last(es[k]).timestamp > limit

\* C11's case: listings of one unit at times 0, 1 and 3 under a threshold
\* of 1 gave the episodes [0, 1] (a gap equal to the threshold) and [3].
C11_Witness ==
    /\ eps.done /\ threshold = <<1>> /\ Len(S.listings) = 3
    /\ S.listings[1].timestamp = 3
    /\ eps.episodes =
          <<<<RentListing(1500, "Alcyone", 0, <<"1", "100">>, Alcyone.url),
              RentListing(1500, "Alcyone", 1, <<"1", "100">>, Alcyone.url)>>,
            <<RentListing(1500, "Alcyone", 3, <<"1", "100">>, Alcyone.url)>>>>

\* C12: the episodes partition the listings of the survey: together they
\* hold each listing once, none is empty, the listings of an episode share
\* url and unit, and are in non-decreasing timestamp order.
C12_EpisodesPartition ==
    eps.done =>
        /\ IsPermutation(Flatten(eps.episodes), S.listings)
        /\ \A k \in 1..Len(eps.episodes) :
              LET e == eps.episodes[k]
              IN  /\ e # <<>>
                  /\ \A i \in 1..Len(e) : e[i].url = e[1].url /\ e[i].unit = e[1].unit
                  /\ NonDecreasing(e)

\* C12's case: a survey of three listings, two of them equal, of two
\* buildings gave two episodes.
C12_Witness ==
    /\ eps.done /\ Len(S.listings) = 3 /\ Len(eps.episodes) = 2
    /\ S.listings[1] = S.listings[3] /\ S.listings[2].url # S.listings[1].url
    /\ Len(eps.episodes[1]) + Len(eps.episodes[2]) = 3

\* C13: for a survey without listings, episodes(), unit_episodes() and
\* url_episodes() each yield nothing and raise nothing, and is_valid() is
\* true.
C13_EmptySurvey ==
    (eps.done /\ S.listings = <<>>) =>
        /\ eps.episodes = <<>>
        /\ eps.unit_episodes = Yielded(<<>>)
        /\ eps.url_episodes = Yielded(<<>>)
        /\ is_valid(S)

\* C14: the episodes of the tuples unit_episodes() yields, taken in order,
\* are the episodes episodes() yields for the same threshold, each once and
\* in the same order, and so are the episodes of the tuples url_episodes()
\* yields.
C14_Regrouping ==
    eps.done =>
        /\ eps.unit_episodes.ok
        /\ Flatten([k \in 1..Len(eps.unit_episodes.values) |->
                        eps.unit_episodes.values[k][2]]) = eps.episodes
        /\ eps.url_episodes.ok
        /\ Flatten([k \in 1..Len(eps.url_episodes.values) |->
                        Flatten([j \in 1..Len(eps.url_episodes.values[k][2]) |->
                                    eps.url_episodes.values[k][2][j][2]])])
              = eps.episodes

\* C15: is_valid() is true exactly when, for every listing of the survey,
\* the price is a number that is not negative, unit, url and scraper are
\* strings that are not empty, and the timestamp is a datetime.
C15_ValidIff ==
    valid # <<>> =>
        (valid[1] <=>
            \A i \in 1..Len(S.listings) :
                LET l == S.listings[i]
                IN  /\ l.price.type \in {"float", "int"} /\ l.price.value >= 0
                    /\ \A key \in {"unit", "url", "scraper"} :
                          l[key].type = "str" /\ l[key].value # ""
                    /\ l.timestamp.type = "datetime")

\* C16: no row is in the table whose listing fails validation: every row
\* inserted by a fetch or a regenerate has a price that is not negative
\* and a unit, a url and a scraper that are not empty.
C16_NoInvalidRow ==
    \A i \in 1..Len(db) :
        /\ db[i].price >= 0
        /\ db[i].unit # <<"", "">> /\ db[i].url # "" /\ db[i].scraper # ""

\* C17: a step of a fetch that ends it with an exception (the GET raising,
\* an HTTP error status, the extraction raising) changes neither the cache
\* nor the table.
C17_FailedFetchChangesNothing ==
    [][(pc = "fetch" /\ Running /\ ret' = "raise")
          => (cache' = cache /\ db' = db)]_vars

\* C18: a ScrapeError for one scraper (the step of a running fetch that
\* does not advance the clock) while other selected scrapers remain to be
\* fetched does not end the pass: the handler goes on with those scrapers.
C18_ScrapeErrorGoesOn ==
    [][(/\ pc = "fetch" /\ Running /\ now' = now /\ ret' # "interrupt"
        /\ Tail(todo) # <<>>)
          => (todo' = Tail(todo) /\ ret' = "running")]_vars

\* C19: a step of a fetch that succeeds leaves the rows the table had and
\* appends one row for each unit of the page just cached, in the page's
\* order, with the scraper's name, the unit's building, number and price,
\* and a timestamp taken during the step.
C19_FetchAppends ==
    [][(pc = "fetch" /\ Running /\ now' # now /\ ret' # "raise") =>
          LET self == Head(todo)
              added == cache'[self.name] \ cache[self.name]
          IN  /\ Cardinality(added) = 1
              /\ LET file == CHOOSE f \in added : TRUE
                     units == FedPages[file.text].units
                 IN  /\ Len(db') = Len(db) + Len(units)
                     /\ SubSeq(db', 1, Len(db)) = db
                     /\ \A k \in 1..Len(units) :
                           LET row == db'[Len(db) + k]
                           IN  /\ row.scraper = self.name
                               /\ row.unit = <<units[k].building, units[k].unit>>
                               /\ row.price = PriceFloat(units[k].price[1]).value
                               /\ ConvertTimestamp(row.timestamp) \in now..(now' - 1)]_vars

\* C19's case: a fetch has ended that appended rows to a table which held
\* rows already.
C19_Witness ==
    /\ pc = "fetch" /\ ret = "None"
    /\ before # <<>> /\ Len(db) = Len(before) + 2
    /\ SubSeq(db, 1, Len(before)) = before

\* C20: whenever cache_survey returns, its listings are those of the
\* snapshots of the cache directory taken in the order of the times of
\* their names, each snapshot once, each listing tagged with that time and
\* the scraper's name and url.
C20_CacheSurveyInOrder ==
    \A i \in 1..Len(scrapers) :
        \A cs \in cache_survey(scrapers[i], cache[scrapers[i].name]) :
            cs.ok =>
                \E files \in ByEmbeddedTime(cache[scrapers[i].name]) :
                    cs.listings =
                        Flatten([k \in 1..Len(files) |->
                                    SnapshotListings(scrapers[i], files[k])])

\* C21: two calls of cache_survey for a scraper with no capture added in
\* between, whatever order the cache directory is listed in on each call,
\* return surveys that compare equal (when they return).
C21_RegenerationIdempotent ==
    \A i \in 1..Len(scrapers) :
        LET surveys == cache_survey(scrapers[i], cache[scrapers[i].name])
        IN  \A first, second \in surveys :
                (first.ok /\ second.ok)
                    => SurveyEq(RentSurvey(first.listings), RentSurvey(second.listings))

\* C21's case: a cache of two snapshots with listings, which regenerates
\* to two different lists of listings according to the order of the files.
C21_Witness ==
    \E first, second \in cache_survey(Alcyone, cache["Alcyone"]) :
        /\ first.ok /\ second.ok
        /\ Len(first.listings) = 4
        /\ first.listings # second.listings

\* C22: when every snapshot of a cache directory can be read and
\* extracted, cache_survey raises nothing, also when snapshots yield no
\* listing: it logs a warning for each of those, and its listings are those
\* of all the snapshots, each snapshot once, in the order listed.
C22_EmptySnapshotWarns ==
    \A i \in 1..Len(scrapers) :
        LET self == scrapers[i]
            dir == cache[self.name]
        IN  (\A file \in dir :
                ParsedName(file.name).ok /\ survey(self, cached_scrape(file)).ok)
            => \A files \in listdir(dir) :
                  LET cs == cache_survey_in(self, files)
                  IN  /\ cs.ok
                      /\ cs.listings =
                            Flatten([k \in 1..Len(files) |->
                                        SnapshotListings(self, files[k])])
                      /\ \A file \in dir :
                            InSeq(file, cache_warnings(self, files))
                                <=> FedPages[file.text].units = <<>>

\* C22's case: a regenerate has ended that inserted the rows of a cache
\* holding a snapshot of two listings and a snapshot without listings.
C22_Witness ==
    /\ pc = "regenerate" /\ ret = "exit" /\ selected = <<Alcyone>>
    /\ Cardinality(cache["Alcyone"]) = 2
    /\ \E file \in cache["Alcyone"] : file.text = PageEmpty
    /\ Len(db) = 2

\* C23 as it was stated: a start of the process that finds a cache path
\* that is no directory, missing paths included, raises and stays at the
\* start.
C23_MissingOrNotADirectoryIsFatal ==
    [][(pc = "start" /\ \E n \in Names : paths[n] # "dir")
          => (ret' = "raise" /\ pc' = "start")]_vars

\* C23: while a cache path is a file that is no directory, or is missing
\* and cannot be created, every step is a start of the process that
\* raises, with no row in the table and no snapshot in a cache, and leaves
\* them so; a start that finds each cache path a directory or missing and
\* creatable returns, each cache path a directory afterwards.
C23_NotADirectoryIsFatal ==
    [][LET fatal == {n \in Names : paths[n] \in {"file", "blocked"}}
       IN  /\ fatal # {} =>
                /\ pc = "start" /\ pc' = "start" /\ ret' = "raise"
                /\ db = <<>> /\ Snapshots = 0
                /\ db' = db /\ cache' = cache
           /\ (pc = "start" /\ fatal = {}) =>
                /\ pc' = "main" /\ ret' = "None"
                /\ \A n \in Names : paths'[n] = "dir"]_vars

\* C23's case: the start raised, the first scraper's cache path a
\* directory and the second one's a file.
C23_Witness ==
    /\ pc = "start" /\ ret = "raise"
    /\ paths["Alcyone"] = "dir" /\ paths["Cascade"] = "file"
    /\ db = <<>> /\ Snapshots = 0

\* C24: the rows a successful fetch inserts are the rows of the listings
\* that the snapshot file it wrote gives when it is replayed: the same
\* units and prices, the time of the file's name, the scraper's url.
C24_FetchedIsReplayed ==
    [][(pc = "fetch" /\ Running /\ now' # now /\ ret' # "raise") =>
          LET self == Head(todo)
              added == cache'[self.name] \ cache[self.name]
          IN  \A file \in added :
                  SubSeq(db', Len(db) + 1, Len(db'))
                      = InsertRows(self, SnapshotListings(self, file))]_vars

\* C25: the name of the file a fetch writes is parsed back by
\* cached_scrapes to the time it was named with, whatever the content type
\* of the response, an extension being inferred from it or not.
C25_NameRoundTrip ==
    [][(pc = "fetch" /\ Running /\ now' # now) =>
          \A file \in cache'[Head(todo).name] \ cache[Head(todo).name] :
              ParsedName(file.name) = [ok |-> TRUE, timestamp |-> now]]_vars

\* A ledgerId comment that handle_comment can split opens a listing, and
\* the end tag </li> closes one.
OpensListing(ev) ==
    ev.kind = "comment" /\ Len(ev.parts) = 3 /\ ev.parts[1][1] = "ledgerId"
ClosesListing(ev) == ev = EndTag("li")

\* The comment of the listing that is open before event j of a text: the
\* last comment that opens a listing with no </li> between it and j, and 0
\* when no listing is open.
Opener(events, j) ==
    LET open == {i \in 1..(j - 1) :
                    /\ OpensListing(events[i])
                    /\ \A k \in (i + 1)..(j - 1) : ~ClosesListing(events[k])}
    IN  IF open = {} THEN 0 ELSE CHOOSE i \in open : \A k \in open : k <= i

\* The listings of a text in document order: each </li> that finds a
\* listing open, with the comment that opened it.
ClosedListings(events) ==
    LET closers == SelectSeq([j \in 1..Len(events) |-> j],
                             LAMBDA j : /\ ClosesListing(events[j])
                                        /\ Opener(events, j) # 0)
    IN  [n \in 1..Len(closers) |-> <<Opener(events, closers[n]), closers[n]>>]

\* C26: the units of the parser are the listings of the text fed to it, in
\* document order, one unit for each </li> that closes a listing opened by
\* a ledgerId comment, with the ledger, building and unit of that comment;
\* a price, floorplan or description of a unit comes from character data or
\* a start-end tag between that comment and that </li>, the data after a
\* pricing span and the attributes of a start-end tag there are recorded,
\* and markup outside an open listing adds no unit.
C26_OneUnitPerListing ==
    LET closed == ClosedListings(doc)
    IN  /\ Len(parser.units) = Len(closed)
        /\ \A n \in 1..Len(closed) :
              LET i == closed[n][1]
                  j == closed[n][2]
                  unit == parser.units[n]
                  inside == (i + 1)..(j - 1)
              IN  /\ unit.ledger = doc[i].parts[1][2]
                  /\ unit.building = doc[i].parts[2][2]
                  /\ unit.unit = doc[i].parts[3][2]
                  /\ unit.price # <<>> =>
                        \E k \in inside : /\ doc[k].kind = "data"
                                          /\ unit.price = <<strip(doc[k].text)>>
                  /\ unit.floorplan # <<>> =>
                        \E k \in inside :
                            /\ doc[k].kind = "startendtag"
                            /\ \E a \in 1..Len(doc[k].parts) :
                                  doc[k].parts[a] = <<"src", unit.floorplan[1]>>
                  /\ unit.description # <<>> =>
                        \E k \in inside :
                            /\ doc[k].kind = "startendtag"
                            /\ \E a \in 1..Len(doc[k].parts) :
                                  doc[k].parts[a] = <<"alt", unit.description[1]>>
                  /\ (\E k \in inside : /\ k - 1 \in inside
                                        /\ doc[k - 1] = StartTag(SpanPricing)
                                        /\ doc[k].kind = "data")
                        => unit.price # <<>>
                  /\ (\E k \in inside : doc[k].kind = "startendtag")
                        => unit.floorplan # <<>> /\ unit.description # <<>>

\* C26's case: a text of two listings after character data outside of any
\* listing gave two units, in the order of their comments.
C26_Witness ==
    /\ Len(doc) = 5 /\ doc[1].kind = "data"
    /\ Len(parser.units) = 2
    /\ parser.units[1].ledger = "7" /\ parser.units[2].ledger = "8"

\* C27: when unit_episodes() and url_episodes() yield, the episodes of each
\* (unit, episodes) tuple are of that unit and of one url, no two tuples
\* are of the same url and unit, the episodes of each (url, unit_episodes)
\* tuple are of that url, and no two of these tuples are of the same url.
C27_GroupsByKey ==
    (eps.done /\ eps.unit_episodes.ok /\ eps.url_episodes.ok) =>
        LET units == eps.unit_episodes.values
            urls == eps.url_episodes.values
        IN  /\ \A k \in 1..Len(units) : \A j \in 1..Len(units[k][2]) :
                  \A l \in 1..Len(units[k][2][j]) :
                      /\ units[k][2][j][l].unit = units[k][1]
                      /\ units[k][2][j][l].url = units[k][2][1][1].url
            /\ \A k, m \in 1..Len(units) :
                  (units[k][1] = units[m][1]
                      /\ units[k][2][1][1].url = units[m][2][1][1].url) => k = m
            /\ \A k \in 1..Len(urls) : \A u \in 1..Len(urls[k][2]) :
                  \A j \in 1..Len(urls[k][2][u][2]) :
                      \A l \in 1..Len(urls[k][2][u][2][j]) :
                          urls[k][2][u][2][j][l].url = urls[k][1]
            /\ \A k, m \in 1..Len(urls) : urls[k][1] = urls[m][1] => k = m

\* C28: two surveys that compare equal hold the same listings with the same
\* multiplicities, all five fields being equal.
C28_EqualMeansSameListings ==
    (cmp.done /\ cmp.st /\ S.isSurvey /\ T.isSurvey) =>
        BagOf(S.listings) = BagOf(T.listings)

\* C28's case: two surveys that hold the same listing twice compared equal.
C28_Witness ==
    /\ cmp.done /\ cmp.st /\ S.isSurvey /\ T.isSurvey
    /\ \E x \in DOMAIN BagOf(S.listings) : BagOf(S.listings)[x] = 2

\* C29: the survey of a snapshot that the shared parser gives after the
\* texts it has parsed before is the survey a new parser gives of the
\* same snapshot.
C29_SurveyOfScrapeOnly ==
    LET scrape == Scrape("", 0, None, None)
    IN  Surveyed(Alcyone, scrape, parser)
            = Surveyed(Alcyone, scrape, HandleAll(ParserReset, doc))

\* C30: the episodes, each as the multiset of its listings, are the same
\* for every order the listings of the survey can be in and every order its
\* urls are iterated in; the call leaves the listings of the survey as
\* they are.
C30_EpisodesIgnoreOrder ==
    eps.done =>
        \A listings \in Reorderings(S.listings) :
            \A urls \in UrlOrders(listings) :
                EpisodeBags(episodes(RentSurvey(listings), threshold, urls))
                    = EpisodeBags(eps.episodes)

\* C30's case: the episodes of a survey of three listings of one unit,
\* given out of timestamp order, two of them at the same time.
C30_Witness ==
    /\ eps.done /\ Len(S.listings) = 3 /\ Len(eps.episodes) = 2
    /\ S.listings[1].timestamp = 3 /\ S.listings[2].timestamp = 0
    /\ S.listings[3].timestamp = 0
    /\ S.listings[2].unit = S.listings[3].unit /\ S.listings[2].url = S.listings[3].url
    /\ S.listings[1].unit = S.listings[3].unit /\ S.listings[1].url = S.listings[3].url

====
